---- MODULE Spec2Model ----
(***************************************************************************)
(* A model of the lexical scanner of src/src/scanner.rs.                   *)
(*                                                                         *)
(* A character is a one-character string; a text (the source, a String or  *)
(* Identifier payload, the number buffer) is a sequence of characters.     *)
(* The cursor Peekable<Chars> is the sequence of the characters not yet    *)
(* consumed: peek() is its Head, next() drops it.                          *)
(***************************************************************************)
EXTENDS Integers, Sequences, FiniteSets, TLC

VARIABLES input, source, tokens, line, pc, pass_start

vars == <<input, source, tokens, line, pc, pass_start>>

(***************************************************************************)
(* Character classification (char::is_alphabetic, char::is_numeric,        *)
(* char::is_alphanumeric of the standard library).  is_numeric is the      *)
(* Unicode property: it also holds of characters that are not ASCII        *)
(* digits, of which SuperscriptTwo stands for all.                         *)
(***************************************************************************)
AsciiDigits == {"0", "1", "2", "3", "4", "5", "6", "7", "8", "9"}

SuperscriptTwo == "²"

LowerLetters ==
    {"a", "b", "c", "d", "e", "f", "g", "h", "i", "j", "k", "l", "m",
     "n", "o", "p", "q", "r", "s", "t", "u", "v", "w", "x", "y", "z"}

UpperLetters ==
    {"A", "B", "C", "D", "E", "F", "G", "H", "I", "J", "K", "L", "M",
     "N", "O", "P", "Q", "R", "S", "T", "U", "V", "W", "X", "Y", "Z"}

is_alphabetic(ch) == ch \in LowerLetters \cup UpperLetters

is_numeric(ch) == ch \in AsciiDigits \cup {SuperscriptTwo}

is_alphanumeric(ch) == is_alphabetic(ch) \/ is_numeric(ch)

(***************************************************************************)
(* Tokens (enum TokenType).  Every token is a record of the same shape:    *)
(* type is the variant, text the payload of Identifier and String, value   *)
(* the payload of Number and msg the payload of Error.  An f64 parsed from *)
(* a short decimal literal is the decimal itself, held as <<n, scale>>     *)
(* meaning n / 10^scale with no trailing zero in the fraction.             *)
(***************************************************************************)
NoText == <<>>

NoValue == <<0, 0>>

Tok(t) == [type |-> t, text |-> NoText, value |-> NoValue, msg |-> ""]

Identifier(s) == [type |-> "Identifier", text |-> s, value |-> NoValue, msg |-> ""]

String(s) == [type |-> "String", text |-> s, value |-> NoValue, msg |-> ""]

Number(v) == [type |-> "Number", text |-> NoText, value |-> v, msg |-> ""]

Error(m) == [type |-> "Error", text |-> NoText, value |-> NoValue, msg |-> m]

Eof == Tok("Eof")

ExpectedDigit == "Expected digit after '.'"

FailedToParse == "Failed to parse number"

(***************************************************************************)
(* The scanner value threaded through the stages (struct Scanner).         *)
(***************************************************************************)
Scanner(s, t, l) == [source |-> s, tokens |-> t, line |-> l]

peek_is_none(scanner) == scanner.source = <<>>

advance(scanner) ==
    IF peek_is_none(scanner) THEN scanner
    ELSE [scanner EXCEPT !.source = Tail(@)]

push(scanner, token) == [scanner EXCEPT !.tokens = Append(@, token)]

(***************************************************************************)
(* str::parse::<f64> on the number buffer.  The buffer holds only numeric  *)
(* characters and '.'.  The standard library accepts digits, digits '.'    *)
(* [digits] and '.' digits (ASCII digits only): "5." parses to 5, "1.2.3"  *)
(* and a buffer with a non-ASCII numeric character do not parse.           *)
(***************************************************************************)
RECURSIVE CountDots(_)
CountDots(s) ==
    IF s = <<>> THEN 0
    ELSE (IF Head(s) = "." THEN 1 ELSE 0) + CountDots(Tail(s))

RECURSIVE TakeUntilDot(_)
TakeUntilDot(s) ==
    IF s = <<>> \/ Head(s) = "." THEN <<>>
    ELSE <<Head(s)>> \o TakeUntilDot(Tail(s))

RECURSIVE DropThroughDot(_)
DropThroughDot(s) ==
    IF s = <<>> THEN <<>>
    ELSE IF Head(s) = "." THEN Tail(s)
    ELSE DropThroughDot(Tail(s))

RECURSIVE StripTrailingZeros(_)
StripTrailingZeros(s) ==
    IF s # <<>> /\ s[Len(s)] = "0"
    THEN StripTrailingZeros(SubSeq(s, 1, Len(s) - 1))
    ELSE s

DigitValue(ch) ==
    CASE ch = "0" -> 0 [] ch = "1" -> 1 [] ch = "2" -> 2 [] ch = "3" -> 3
      [] ch = "4" -> 4 [] ch = "5" -> 5 [] ch = "6" -> 6 [] ch = "7" -> 7
      [] ch = "8" -> 8 [] ch = "9" -> 9

RECURSIVE DecimalValue(_)
DecimalValue(s) ==
    IF s = <<>> THEN 0
    ELSE 10 * DecimalValue(SubSeq(s, 1, Len(s) - 1)) + DigitValue(s[Len(s)])

parse_f64_ok_NoTrailingDot(s) ==
    /\ \A i \in 1..Len(s) : s[i] \in AsciiDigits \cup {"."}
    /\ CountDots(s) <= 1
    /\ s # <<>>
    /\ s[Len(s)] # "."

parse_f64_ok(s) ==
    /\ \A i \in 1..Len(s) : s[i] \in AsciiDigits \cup {"."}
    /\ CountDots(s) <= 1
    /\ \E i \in 1..Len(s) : s[i] \in AsciiDigits

parse_f64_value(s) ==
    LET fraction == StripTrailingZeros(DropThroughDot(s))
    IN  <<DecimalValue(TakeUntilDot(s) \o fraction), Len(fraction)>>

(***************************************************************************)
(* parse_number: triggers on a numeric character, collects numeric         *)
(* characters and '.', and reports a '.' followed by a character that is   *)
(* not numeric.  A '.' followed by the end of the input is not reported:   *)
(* the loop ends and the buffer goes to parse::<f64>.                      *)
(***************************************************************************)
RECURSIVE number_loop_BreakAtDot(_, _)
number_loop_BreakAtDot(scanner, number_string) ==
    IF peek_is_none(scanner)
    THEN [scanner |-> scanner, number_string |-> number_string, returned |-> FALSE]
    ELSE LET ch == Head(scanner.source)
         IN  IF is_numeric(ch) \/ ch = "."
             THEN LET buffer == Append(number_string, ch)
                      s1 == advance(scanner)
                  IN  IF /\ ch = "."
                         /\ ~peek_is_none(s1)
                         /\ ~is_numeric(Head(s1.source))
                      THEN [scanner |-> s1, number_string |-> buffer,
                            returned |-> FALSE]
                      ELSE number_loop_BreakAtDot(s1, buffer)
             ELSE [scanner |-> scanner, number_string |-> number_string,
                   returned |-> FALSE]

RECURSIVE number_loop(_, _)
number_loop(scanner, number_string) ==
    IF peek_is_none(scanner)
    THEN [scanner |-> scanner, number_string |-> number_string, returned |-> FALSE]
    ELSE LET ch == Head(scanner.source)
         IN  IF is_numeric(ch) \/ ch = "."
             THEN LET buffer == Append(number_string, ch)
                      s1 == advance(scanner)
                      s2 == IF ch = "\n"
                            THEN advance([s1 EXCEPT !.line = @ + 1])
                            ELSE s1
                  IN  IF /\ ch = "."
                         /\ ~peek_is_none(s2)
                         /\ ~is_numeric(Head(s2.source))
                      THEN [scanner |-> push(s2, Error(ExpectedDigit)),
                            number_string |-> buffer,
                            returned |-> TRUE]
                      ELSE number_loop(s2, buffer)
             ELSE [scanner |-> scanner, number_string |-> number_string,
                   returned |-> FALSE]

parse_number_DotStarts(scanner) ==
    IF \/ peek_is_none(scanner)
       \/ ~(is_numeric(Head(scanner.source)) \/ Head(scanner.source) = ".")
    THEN scanner
    ELSE LET r == number_loop(scanner, <<>>)
         IN  IF r.returned THEN r.scanner
             ELSE IF parse_f64_ok(r.number_string)
             THEN push(r.scanner, Number(parse_f64_value(r.number_string)))
             ELSE push(r.scanner, Error(FailedToParse))

parse_number(scanner) ==
    IF peek_is_none(scanner) \/ ~is_numeric(Head(scanner.source))
    THEN scanner
    ELSE LET r == number_loop(scanner, <<>>)
         IN  IF r.returned THEN r.scanner
             ELSE IF parse_f64_ok(r.number_string)
             THEN push(r.scanner, Number(parse_f64_value(r.number_string)))
             ELSE push(r.scanner, Error(FailedToParse))

(***************************************************************************)
(* parse_string: consumes the opening quote, then everything up to and     *)
(* including the next quote or up to the end of the input.  The line       *)
(* counter is not touched.                                                 *)
(***************************************************************************)
RECURSIVE string_loop_KeepQuote(_, _)
string_loop_KeepQuote(scanner, string) ==
    IF peek_is_none(scanner)
    THEN [scanner |-> scanner, string |-> string]
    ELSE LET ch == Head(scanner.source)
         IN  IF ch = "\""
             THEN [scanner |-> advance(scanner), string |-> Append(string, ch)]
             ELSE string_loop_KeepQuote(advance(scanner), Append(string, ch))

RECURSIVE string_loop(_, _)
string_loop(scanner, string) ==
    IF peek_is_none(scanner)
    THEN [scanner |-> scanner, string |-> string]
    ELSE LET ch == Head(scanner.source)
         IN  IF ch = "\""
             THEN [scanner |-> advance(scanner), string |-> string]
             ELSE string_loop(advance(scanner), Append(string, ch))

parse_string(scanner) ==
    IF peek_is_none(scanner) \/ Head(scanner.source) # "\""
    THEN scanner
    ELSE LET r == string_loop(advance(scanner), <<>>)
         IN  push(r.scanner, String(r.string))

(***************************************************************************)
(* parse_whitespace: consumes a run of ' ', '\r', '\t' and '\n', counting  *)
(* the newlines.                                                           *)
(***************************************************************************)
RECURSIVE whitespace_loop(_)
whitespace_loop(scanner) ==
    IF peek_is_none(scanner) THEN scanner
    ELSE LET ch == Head(scanner.source)
         IN  IF ch \in {" ", "\r", "\t"}
             THEN whitespace_loop(advance(scanner))
             ELSE IF ch = "\n"
             THEN whitespace_loop(advance([scanner EXCEPT !.line = @ + 1]))
             ELSE scanner

parse_whitespace(scanner) == whitespace_loop(scanner)

(***************************************************************************)
(* parse_comment: on '/' it consumes that character and only then looks at *)
(* the next one; on a second '/' it consumes up to and including the next  *)
(* newline (counted) or up to the end of the input.                        *)
(***************************************************************************)
RECURSIVE comment_loop_KeepNewline(_)
comment_loop_KeepNewline(scanner) ==
    IF peek_is_none(scanner) THEN scanner
    ELSE IF Head(scanner.source) = "\n"
    THEN [scanner EXCEPT !.line = @ + 1]
    ELSE comment_loop_KeepNewline(advance(scanner))

RECURSIVE comment_loop(_)
comment_loop(scanner) ==
    IF peek_is_none(scanner) THEN scanner
    ELSE IF Head(scanner.source) = "\n"
    THEN advance([scanner EXCEPT !.line = @ + 1])
    ELSE comment_loop(advance(scanner))

parse_comment(scanner) ==
    IF ~peek_is_none(scanner) /\ Head(scanner.source) = "/"
    THEN LET s1 == advance(scanner)
         IN  IF ~peek_is_none(s1) /\ Head(s1.source) = "/"
             THEN comment_loop(s1)
             ELSE s1
    ELSE scanner

(***************************************************************************)
(* parse_identifier: on a letter or '_' it collects the run of             *)
(* alphanumeric characters and '_' and looks the whole run up in the       *)
(* reserved words.                                                         *)
(***************************************************************************)
Keywords ==
    {<<<<"a", "n", "d">>, "And">>,
     <<<<"c", "l", "a", "s", "s">>, "Class">>,
     <<<<"e", "l", "s", "e">>, "Else">>,
     <<<<"f", "a", "l", "s", "e">>, "False">>,
     <<<<"f", "u", "n">>, "Fun">>,
     <<<<"f", "o", "r">>, "For">>,
     <<<<"i", "f">>, "If">>,
     <<<<"n", "i", "l">>, "Nil">>,
     <<<<"o", "r">>, "Or">>,
     <<<<"p", "r", "i", "n", "t">>, "Print">>,
     <<<<"r", "e", "t", "u", "r", "n">>, "Return">>,
     <<<<"s", "u", "p", "e", "r">>, "Super">>,
     <<<<"t", "h", "i", "s">>, "This">>,
     <<<<"t", "r", "u", "e">>, "True">>,
     <<<<"v", "a", "r">>, "Var">>,
     <<<<"w", "h", "i", "l", "e">>, "While">>}

identifier_token_Prefix(identifier) ==
    IF \E k \in Keywords :
          /\ Len(identifier) >= Len(k[1])
          /\ SubSeq(identifier, 1, Len(k[1])) = k[1]
    THEN Tok((CHOOSE k \in Keywords :
                 /\ Len(identifier) >= Len(k[1])
                 /\ SubSeq(identifier, 1, Len(k[1])) = k[1])[2])
    ELSE Identifier(identifier)

identifier_token(identifier) ==
    IF \E k \in Keywords : k[1] = identifier
    THEN Tok((CHOOSE k \in Keywords : k[1] = identifier)[2])
    ELSE Identifier(identifier)

RECURSIVE identifier_loop(_, _)
identifier_loop(scanner, identifier) ==
    IF peek_is_none(scanner)
    THEN [scanner |-> scanner, identifier |-> identifier]
    ELSE LET ch == Head(scanner.source)
         IN  IF is_alphanumeric(ch) \/ ch = "_"
             THEN identifier_loop(advance(scanner), Append(identifier, ch))
             ELSE [scanner |-> scanner, identifier |-> identifier]

parse_identifier_LettersOnly(scanner) ==
    IF ~peek_is_none(scanner) /\ is_alphabetic(Head(scanner.source))
    THEN LET r == identifier_loop(scanner, <<>>)
         IN  push(r.scanner, identifier_token(r.identifier))
    ELSE scanner

parse_identifier(scanner) ==
    IF /\ ~peek_is_none(scanner)
       /\ (is_alphabetic(Head(scanner.source)) \/ Head(scanner.source) = "_")
    THEN LET r == identifier_loop(scanner, <<>>)
         IN  push(r.scanner, identifier_token(r.identifier))
    ELSE scanner

(***************************************************************************)
(* parse_pontuation: one token for each of ( ) { } , . - + / ; * and, for  *)
(* ! = < >, the two-character token when the next character is '='.        *)
(* Any other character is left at the cursor.                              *)
(***************************************************************************)
SingleChars ==
    {<<"(", "LeftParen">>, <<")", "RightParen">>, <<"{", "LeftBrace">>,
     <<"}", "RightBrace">>, <<",", "Comma">>, <<".", "Dot">>,
     <<"-", "Minus">>, <<"+", "Plus">>, <<"/", "Slash">>,
     <<";", "Semicolon">>, <<"*", "Star">>}

OneOrTwoChars ==
    {<<"!", "Bang", "BangEqual">>, <<"=", "Equal", "EqualEqual">>,
     <<"<", "Less", "LessEqual">>, <<">", "Greater", "GreaterEqual">>}

parse_pontuation_NoLookahead(scanner) ==
    IF peek_is_none(scanner) THEN scanner
    ELSE LET ch == Head(scanner.source)
         IN  IF \E p \in SingleChars \cup OneOrTwoChars : p[1] = ch
             THEN LET p == CHOOSE p \in SingleChars \cup OneOrTwoChars : p[1] = ch
                  IN  advance(push(scanner, Tok(p[2])))
             ELSE scanner

parse_pontuation_KeepEqual(scanner) ==
    IF peek_is_none(scanner) THEN scanner
    ELSE LET ch == Head(scanner.source)
         IN  IF \E p \in SingleChars : p[1] = ch
             THEN LET p == CHOOSE p \in SingleChars : p[1] = ch
                  IN  advance(push(scanner, Tok(p[2])))
             ELSE IF \E p \in OneOrTwoChars : p[1] = ch
             THEN LET p == CHOOSE p \in OneOrTwoChars : p[1] = ch
                      s1 == advance(scanner)
                  IN  IF ~peek_is_none(s1) /\ Head(s1.source) = "="
                      THEN push(s1, Tok(p[3]))
                      ELSE push(s1, Tok(p[2]))
             ELSE scanner

parse_pontuation_SkipUnknown(scanner) ==
    IF peek_is_none(scanner) THEN scanner
    ELSE LET ch == Head(scanner.source)
         IN  IF \E p \in SingleChars : p[1] = ch
             THEN LET p == CHOOSE p \in SingleChars : p[1] = ch
                  IN  advance(push(scanner, Tok(p[2])))
             ELSE IF \E p \in OneOrTwoChars : p[1] = ch
             THEN LET p == CHOOSE p \in OneOrTwoChars : p[1] = ch
                      s1 == advance(scanner)
                  IN  IF ~peek_is_none(s1) /\ Head(s1.source) = "="
                      THEN advance(push(s1, Tok(p[3])))
                      ELSE push(s1, Tok(p[2]))
             ELSE advance(scanner)

parse_pontuation(scanner) ==
    IF peek_is_none(scanner) THEN scanner
    ELSE LET ch == Head(scanner.source)
         IN  IF \E p \in SingleChars : p[1] = ch
             THEN LET p == CHOOSE p \in SingleChars : p[1] = ch
                  IN  advance(push(scanner, Tok(p[2])))
             ELSE IF \E p \in OneOrTwoChars : p[1] = ch
             THEN LET p == CHOOSE p \in OneOrTwoChars : p[1] = ch
                      s1 == advance(scanner)
                  IN  IF ~peek_is_none(s1) /\ Head(s1.source) = "="
                      THEN advance(push(s1, Tok(p[3])))
                      ELSE push(s1, Tok(p[2]))
             ELSE scanner

(***************************************************************************)
(* The inputs of scan.  Texts is every text over the characters that reach *)
(* each stage and each error path; PunctuationTexts and WordTexts are the  *)
(* texts of operators alone and of word characters alone; Corpus holds     *)
(* longer texts, among them the source of tests::test_scan.                *)
(***************************************************************************)
MaxLen == 4

MaxPunctuationLen == 2

MaxWordLen == 3

Alphabet == {" ", "\n", "/", "a", "1", ".", "\"", "+", "@"}

PunctuationChars ==
    {"(", ")", "{", "}", ",", ".", "-", "+", "/", ";", "*", "!", "=", "<", ">"}

WordChars == {"o", "r", "i", "f", "O", "_", "1"}

HandledChars ==
    {" ", "\r", "\t", "\n", "\"", "_"} \cup PunctuationChars
        \cup LowerLetters \cup UpperLetters \cup AsciiDigits \cup {SuperscriptTwo}

TextsOver(chars, n) == UNION {[1..k -> chars] : k \in 0..n}

TestSource ==
    <<
    "(", " ", ")", " ", "{", " ", "}", " ", ",", " ", ".", " ", "-", " ",
    "+", " ", ";", " ", "*", " ", "!", " ", "!", "=", " ", "=", " ", "=",
    "=", " ", ">", " ", ">", "=", " ", "<", " ", "<", "=", " ", "i", "d",
    "e", "n", "t", "i", "f", "i", "e", "r", " ", "\"", "s", "t", "r", "i",
    "n", "g", "\"", " ", "1", "2", "3", ".", "4", "5", " ", "a", "n", "d",
    " ", "c", "l", "a", "s", "s", " ", "e", "l", "s", "e", " ", "f", "a",
    "l", "s", "e", " ", "f", "u", "n", " ", "f", "o", "r", " ", "i", "f",
    " ", "n", "i", "l", " ", "o", "r", " ", "p", "r", "i", "n", "t", " ",
    "r", "e", "t", "u", "r", "n", " ", "s", "u", "p", "e", "r", " ", "t",
    "h", "i", "s", " ", "t", "r", "u", "e", " ", "v", "a", "r", " ", "w",
    "h", "i", "l", "e", "\n", " ", "/", "/", " ", "c", "o", "m", "m", "e",
    "n", "t", "\n", " ", "1", "/", "3"
    >>

Corpus ==
    {TestSource,
     <<"1", ".", "2", ".">>,
     <<"1", ".", "2", ".", "3">>,
     <<"1", " ", "/", " ", "3">>,
     <<"1", "/", "/", " ", "c", "\n", "2">>,
     <<"(", "/", ")", "=", "=">>,
     <<"f", "o", "r", "e", "s", "t">>,
     <<"w", "h", "i", "l", "e">>,
     <<"!", "=", "=">>,
     <<"=", " ", "=">>,
     <<".", "5">>,
     <<SuperscriptTwo>>}

Inputs ==
    TextsOver(Alphabet, MaxLen) \cup TextsOver(PunctuationChars, MaxPunctuationLen)
        \cup TextsOver(WordChars, MaxWordLen) \cup Corpus

(***************************************************************************)
(* scan.  pc is the position in scan: "scan" at the head of the while      *)
(* loop, the name of a stage when pipe is about to apply it, "return" once *)
(* scan has returned.  input is the argument of scan.  pass_start is the   *)
(* number of characters left when the latest pass of pipe began (NoPass    *)
(* before the first pass).                                                 *)
(***************************************************************************)
NoPass == -1

last_is_error == tokens # <<>> /\ tokens[Len(tokens)].type = "Error"

Init ==
    /\ input \in Inputs
    /\ source = input
    /\ tokens = <<>>
    /\ line = 1
    /\ pc = "scan"
    /\ pass_start = NoPass

ScanEof_NoPush ==
    /\ pc = "scan"
    /\ source = <<>>
    /\ pc' = "return"
    /\ UNCHANGED <<input, source, tokens, line, pass_start>>

ScanEof ==
    /\ pc = "scan"
    /\ source = <<>>
    /\ tokens' = Append(tokens, Eof)
    /\ pc' = "return"
    /\ UNCHANGED <<input, source, line, pass_start>>

ScanError ==
    /\ pc = "scan"
    /\ source # <<>>
    /\ last_is_error
    /\ pc' = "return"
    /\ UNCHANGED <<input, source, tokens, line, pass_start>>

ScanPipe ==
    /\ pc = "scan"
    /\ source # <<>>
    /\ ~last_is_error
    /\ pc' = "parse_whitespace"
    /\ pass_start' = Len(source)
    /\ UNCHANGED <<input, source, tokens, line>>

Becomes(scanner, next) ==
    /\ source' = scanner.source
    /\ tokens' = scanner.tokens
    /\ line' = scanner.line
    /\ pc' = next
    /\ UNCHANGED <<input, pass_start>>

ParseWhitespace ==
    /\ pc = "parse_whitespace"
    /\ Becomes(parse_whitespace(Scanner(source, tokens, line)), "parse_comment")

ParseComment ==
    /\ pc = "parse_comment"
    /\ Becomes(parse_comment(Scanner(source, tokens, line)), "parse_identifier")

ParseIdentifier ==
    /\ pc = "parse_identifier"
    /\ Becomes(parse_identifier(Scanner(source, tokens, line)), "parse_number")

ParseNumber ==
    /\ pc = "parse_number"
    /\ Becomes(parse_number(Scanner(source, tokens, line)), "parse_string")

ParseString ==
    /\ pc = "parse_string"
    /\ Becomes(parse_string(Scanner(source, tokens, line)), "parse_pontuation")

ParsePontuation ==
    /\ pc = "parse_pontuation"
    /\ Becomes(parse_pontuation(Scanner(source, tokens, line)), "scan")

Next ==
    \/ ScanEof
    \/ ScanError
    \/ ScanPipe
    \/ ParseWhitespace
    \/ ParseComment
    \/ ParseIdentifier
    \/ ParseNumber
    \/ ParseString
    \/ ParsePontuation

Spec == Init /\ [][Next]_vars

(***************************************************************************)
(* scan runs without interruption: a step that can be taken is taken.      *)
(***************************************************************************)
FairSpec == Spec /\ WF_vars(Next)

TypeOK ==
    /\ input \in Inputs
    /\ pc \in {"scan", "parse_whitespace", "parse_comment", "parse_identifier",
               "parse_number", "parse_string", "parse_pontuation", "return"}
    /\ line \in Nat
    /\ pass_start \in {NoPass} \cup (0..Len(input))

(***************************************************************************)
(* Properties of the token sequence.                                       *)
(***************************************************************************)
HasToken(type) == \E i \in 1..Len(tokens) : tokens[i].type = type

CountTokens(type) == Cardinality({i \in 1..Len(tokens) : tokens[i].type = type})

Consumed == SubSeq(input, 1, Len(input) - Len(source))

\* C1: at every state of a scan an Error token is the last token: nothing
\* is appended after it, so there is at most one.
C1_ErrorIsLast ==
    \A i \in 1..Len(tokens) : tokens[i].type = "Error" => i = Len(tokens)

\* C2: a returned token sequence that holds an Error token holds no Eof.
C2_NoEofWithError ==
    (pc = "return" /\ HasToken("Error")) => ~HasToken("Eof")

\* C3: when scan returns without having emitted an Error token, the
\* sequence holds exactly one Eof, as its last element, and the cursor is
\* exhausted.
C3_EofOnceAndLast ==
    (pc = "return" /\ ~HasToken("Error")) =>
        /\ tokens # <<>>
        /\ tokens[Len(tokens)] = Eof
        /\ CountTokens("Eof") = 1
        /\ source = <<>>

C3_Witness ==
    /\ pc = "return"
    /\ ~HasToken("Error")
    /\ Len(tokens) >= 3
    /\ \E i \in 1..Len(input) : input[i] \in {" ", "\n"}

DigitsThenDot(text) ==
    /\ Len(text) >= 2
    /\ text[Len(text)] = "."
    /\ \A i \in 1..(Len(text) - 1) : text[i] \in AsciiDigits

\* C4: an input that is digits followed by a final '.' (such as "5.") scans
\* to one Error token and nothing else: no Number, no Eof.
C4_TrailingDotIsError ==
    (pc = "return" /\ DigitsThenDot(input)) =>
        /\ Len(tokens) = 1
        /\ tokens[1].type = "Error"

(***************************************************************************)
(* Termination.                                                            *)
(***************************************************************************)
HandledInput == \A i \in 1..Len(input) : input[i] \in HandledChars

\* C5: on an input made only of characters that some stage handles, every
\* pass of the pipeline ends with fewer characters left than it began with,
\* so scan makes at most Len(input) passes and returns.
C5_PassConsumes ==
    (HandledInput /\ pc = "scan" /\ pass_start # NoPass) => Len(source) < pass_start

C5_Witness ==
    /\ HandledInput
    /\ pc = "return"
    /\ Len(input) >= 3
    /\ pass_start = 1

(***************************************************************************)
(* The stages.                                                             *)
(***************************************************************************)
CommentTrigger == Len(source) >= 2 /\ source[1] = "/" /\ source[2] = "/"

\* C6: the comment stage leaves cursor, tokens and line unchanged unless the
\* current and the next character are both '/'; a lone '/' stays at the
\* cursor.
C6_CommentFrame ==
    [][(pc = "parse_comment" /\ ~CommentTrigger)
           => UNCHANGED <<source, tokens, line>>]_vars

PunctuationOnly(text) == \A i \in 1..Len(text) : text[i] \in PunctuationChars

RECURSIVE PunctuationTokens(_)
PunctuationTokens(text) ==
    IF text = <<>> THEN <<>>
    ELSE IF /\ Len(text) >= 2
            /\ text[2] = "="
            /\ \E p \in OneOrTwoChars : p[1] = text[1]
    THEN <<Tok((CHOOSE p \in OneOrTwoChars : p[1] = text[1])[3])>>
             \o PunctuationTokens(Tail(Tail(text)))
    ELSE <<Tok((CHOOSE p \in SingleChars \cup OneOrTwoChars : p[1] = text[1])[2])>>
             \o PunctuationTokens(Tail(text))

\* C7: an input of punctuation and operator characters alone scans to one
\* token per character, or per two-character operator, in source order,
\* followed by Eof.
C7_PunctuationTokens ==
    (pc = "return" /\ PunctuationOnly(input)) =>
        tokens = PunctuationTokens(input) \o <<Eof>>

Newlines(text) == Cardinality({i \in 1..Len(text) : text[i] = "\n"})

\* C8: at every state the line counter is 1 plus the number of newline
\* characters consumed so far, whichever stage consumed them.
C8_LineCountsNewlines == line = 1 + Newlines(Consumed)

IsWord(text) ==
    /\ text # <<>>
    /\ is_alphabetic(text[1]) \/ text[1] = "_"
    /\ \A i \in 1..Len(text) : is_alphanumeric(text[i]) \/ text[i] = "_"

\* C9: an input that is one word scans to one token and Eof: the keyword
\* token when the word is exactly a reserved word, Identifier(word)
\* otherwise, also when the word starts with or contains a reserved word.
C9_WordToken ==
    (pc = "return" /\ IsWord(input)) =>
        /\ Len(tokens) = 2
        /\ tokens[2] = Eof
        /\ \A k \in Keywords : input = k[1] => tokens[1] = Tok(k[2])
        /\ (\A k \in Keywords : input # k[1]) => tokens[1] = Identifier(input)

C9_Witness ==
    /\ pc = "return"
    /\ IsWord(input)
    /\ \E k \in Keywords :
          /\ Len(input) > Len(k[1])
          /\ SubSeq(input, 1, Len(k[1])) = k[1]

TestTokens ==
    <<
     Tok("LeftParen"), Tok("RightParen"), Tok("LeftBrace"),
     Tok("RightBrace"), Tok("Comma"), Tok("Dot"), Tok("Minus"), Tok("Plus"),
     Tok("Semicolon"), Tok("Star"), Tok("Bang"), Tok("BangEqual"),
     Tok("Equal"), Tok("EqualEqual"), Tok("Greater"), Tok("GreaterEqual"),
     Tok("Less"), Tok("LessEqual"),
     Identifier(<<"i", "d", "e", "n", "t", "i", "f", "i", "e", "r">>),
     String(<<"s", "t", "r", "i", "n", "g">>),
     Number(<<12345, 2>>),
     Tok("And"), Tok("Class"), Tok("Else"), Tok("False"), Tok("Fun"),
     Tok("For"), Tok("If"), Tok("Nil"), Tok("Or"), Tok("Print"),
     Tok("Return"), Tok("Super"), Tok("This"), Tok("True"), Tok("Var"),
     Tok("While"),
     Number(<<1, 0>>), Tok("Slash"), Number(<<3, 0>>), Eof
    >>

\* C10: the source of test_scan scans to its 41 tokens: the 18 operators,
\* Identifier, String, Number(123.45), the 16 keywords, Number(1), Slash,
\* Number(3), Eof.
C10_TestScan ==
    (pc = "return" /\ input = TestSource) =>
        (Len(tokens) = 41 /\ tokens = TestTokens)

C10_Witness == pc = "return" /\ input = TestSource /\ line = 3

FirstIndex(text, ch) ==
    IF \E i \in 1..Len(text) : text[i] = ch
    THEN CHOOSE i \in 1..Len(text) :
             text[i] = ch /\ \A j \in 1..(i - 1) : text[j] # ch
    ELSE Len(text) + 1

\* C11: on a '"' the string stage appends exactly one String token whose
\* payload is what lies between the opening quote and the next '"' (or the
\* end of the input), quotes excluded, and leaves the cursor after the
\* closing quote (or exhausted); it never appends an Error token.
C11_StringStage ==
    [][(pc = "parse_string" /\ source # <<>> /\ Head(source) = "\"") =>
           LET rest == Tail(source)
               close == FirstIndex(rest, "\"")
           IN  /\ tokens' = Append(tokens, String(SubSeq(rest, 1, close - 1)))
               /\ source' = SubSeq(rest, close + 1, Len(rest))]_vars

C11_Witness ==
    /\ pc = "return"
    /\ Len(tokens) = 2
    /\ tokens[1].type = "String"
    /\ tokens[1].text = <<"/", "1", "\n">>
    /\ tokens[2] = Eof

\* C12: when the current and the next character are both '/', the comment
\* stage appends no token and consumes up to and including the first
\* newline, counting it once, or up to the end of the input, counting
\* nothing.
C12_CommentStage ==
    [][(pc = "parse_comment" /\ CommentTrigger) =>
           LET newline == FirstIndex(source, "\n")
           IN  /\ tokens' = tokens
               /\ source' = SubSeq(source, newline + 1, Len(source))
               /\ line' = IF newline <= Len(source) THEN line + 1 ELSE line]_vars

C12_Witness ==
    /\ pc = "parse_identifier"
    /\ input = <<"/", "/", "1", "\n">>
    /\ source = <<>>
    /\ tokens = <<>>
    /\ line = 2

NumberTrigger == source # <<>> /\ is_numeric(source[1])

\* The index of a '.' in text that ends a run of numeric characters and
\* digit-followed dots and is itself followed by a character that is not
\* numeric.
DotBeforeNonNumeric(text, k) ==
    /\ k \in 1..(Len(text) - 1)
    /\ text[k] = "."
    /\ ~is_numeric(text[k + 1])
    /\ \A i \in 1..(k - 1) :
          \/ is_numeric(text[i])
          \/ text[i] = "." /\ is_numeric(text[i + 1])

\* C13: when the number stage consumes a '.' whose next character exists
\* and is not numeric, it appends Error("Expected digit after '.'") and
\* nothing else, with the cursor right after that '.'.
C13_DotWithoutDigit ==
    [][(pc = "parse_number" /\ NumberTrigger) =>
           \A k \in 1..Len(source) :
               DotBeforeNonNumeric(source, k) =>
                   /\ tokens' = Append(tokens, Error(ExpectedDigit))
                   /\ source' = SubSeq(source, k + 1, Len(source))]_vars

C13_Witness ==
    /\ pc = "parse_string"
    /\ input = <<"1", "1", ".", "a">>
    /\ source = <<"a">>
    /\ tokens = <<Error(ExpectedDigit)>>

CountChars(text, ch) == Cardinality({i \in 1..Len(text) : text[i] = ch})

NoAdjacentSlashes(text) ==
    \A i \in 1..(Len(text) - 1) : ~(text[i] = "/" /\ text[i + 1] = "/")

\* C14: in an input with no string literal and no two adjacent '/', whose
\* scan returns without an Error token, every '/' has produced one Slash
\* token, whatever precedes it.
C14_SlashPerLoneSlash ==
    (/\ pc = "return"
     /\ CountChars(input, "\"") = 0
     /\ NoAdjacentSlashes(input)
     /\ ~HasToken("Error"))
        => CountTokens("Slash") = CountChars(input, "/")

\* C15: two consecutive '/' at the cursor are consumed by the comment stage
\* alone and yield no token: no other stage, the punctuation stage in
\* particular, consumes either of them, whatever was scanned just before.
C15_CommentTakesSlashes ==
    [][(CommentTrigger /\ source' # source)
           => (pc = "parse_comment" /\ tokens' = tokens)]_vars

\* C16 as stated: on an input of digits and '.' characters no token
\* sequence ever holds Error("Failed to parse number").
C16_NeverParseFailure ==
    (\A i \in 1..Len(input) : input[i] \in AsciiDigits \cup {"."}) =>
        \A i \in 1..Len(tokens) : tokens[i] # Error(FailedToParse)

\* C16 as amended: the number stage appends Error("Failed to parse number")
\* exactly when it does not report a '.' without a digit and the run it
\* collected holds more than one '.' or a numeric character that is not an
\* ASCII digit; a run of ASCII digits with at most one '.' always parses.
C16_ParseFailureCases ==
    [][(pc = "parse_number" /\ NumberTrigger) =>
           LET run == SubSeq(source, 1, Len(source) - Len(source'))
               appended == tokens'[Len(tokens')]
           IN  /\ Len(tokens') = Len(tokens) + 1
               /\ (appended = Error(FailedToParse)) <=>
                      /\ appended # Error(ExpectedDigit)
                      /\ \/ CountChars(run, ".") >= 2
                         \/ \E i \in 1..Len(run) :
                                run[i] \notin AsciiDigits \cup {"."}]_vars

C16_Witness ==
    /\ pc = "parse_string"
    /\ input = <<"1", ".", "2", ".", "3">>
    /\ source = <<>>
    /\ tokens = <<Error(FailedToParse)>>

OperatorStep ==
    (pc = "parse_pontuation" /\ source # <<>>
         /\ \E p \in OneOrTwoChars : p[1] = source[1]) =>
        LET p == CHOOSE q \in OneOrTwoChars : q[1] = source[1]
        IN  IF Len(source) >= 2 /\ source[2] = "="
            THEN /\ tokens' = Append(tokens, Tok(p[3]))
                 /\ source' = SubSeq(source, 3, Len(source))
            ELSE /\ tokens' = Append(tokens, Tok(p[2]))
                 /\ source' = SubSeq(source, 2, Len(source))

OperatorExamples ==
    /\ (pc = "return" /\ input = <<"!", "=", "=">>)
           => tokens = <<Tok("BangEqual"), Tok("Equal"), Eof>>
    /\ (pc = "return" /\ input = <<"=", " ", "=">>)
           => tokens = <<Tok("Equal"), Tok("Equal"), Eof>>

\* C17: on '!', '=', '<' or '>' the punctuation stage consumes it and, if
\* and only if the next character is '=', consumes that too and appends the
\* two-character token; otherwise it appends the one-character token and
\* consumes nothing more.  "!==" scans to BangEqual, Equal and "= =" to
\* Equal, Equal.
C17_OperatorLookahead == [][OperatorStep]_vars /\ []OperatorExamples

C17_Witness ==
    /\ pc = "return"
    /\ input = <<"!", "=", "=">>
    /\ tokens = <<Tok("BangEqual"), Tok("Equal"), Eof>>

AtUnhandled ==
    /\ source # <<>>
    /\ source[1] \notin HandledChars
    /\ ~last_is_error

\* C18: once the cursor is at a character that no stage handles and the
\* last token is not Error, every step of scan leaves cursor, tokens and
\* line unchanged and none of them returns: the driver repeats the same
\* pass forever, and neither Eof nor Error is ever appended.
C18_UnhandledSpins ==
    [][AtUnhandled =>
           (UNCHANGED <<source, tokens, line>> /\ pc' # "return")]_vars

C18_Witness ==
    /\ AtUnhandled
    /\ pc = "scan"
    /\ pass_start = Len(source)
    /\ tokens # <<>>

NumberFrame ==
    (pc = "parse_number" /\ ~NumberTrigger) => UNCHANGED <<source, tokens, line>>

LeadingDotExample ==
    (pc = "return" /\ input = <<".", "5">>)
        => tokens = <<Tok("Dot"), Number(<<5, 0>>), Eof>>

\* C19: the number stage leaves cursor, tokens and line unchanged unless the
\* character at the cursor is numeric; a leading '.' starts no number, and
\* ".5" scans to Dot, Number(5), Eof.
C19_NumberTrigger == [][NumberFrame]_vars /\ []LeadingDotExample

C19_Witness ==
    /\ pc = "return"
    /\ input = <<".", "5">>
    /\ tokens = <<Tok("Dot"), Number(<<5, 0>>), Eof>>

====
